---- MODULE Spec2Model ----
(***************************************************************************)
(* Model of logsearchapi/server/db.go: the time-partitioned audit-log      *)
(* store (DBClient).  Three groups of operations are modelled:             *)
(*   - InitDBTables: creation of the two parent tables and of their        *)
(*     partitions around the current time (SpecBoot);                      *)
(*   - InsertEvent: the two-table transactional write (Spec);              *)
(*   - Search: the query builder and the result exporter (Spec, SpecQuery).*)
(* The relational engine is modelled by what the code relies on: a         *)
(* catalog of relations, committed rows per table, read-committed          *)
(* visibility, and statements that either take effect or return an error.  *)
(***************************************************************************)
EXTENDS Integers, Sequences, FiniteSets, Bags, TLC

VARIABLES
    clock,       \* the wall clock (time.Now / CURRENT_TIMESTAMP), in seconds
    ticks,       \* how many times the clock has advanced
    relations,   \* the engine's catalog: parent tables and partitions
    created,     \* bag: how many times the engine materialised each relation
    faults,      \* engine errors / deadline expiries injected so far
    boot,        \* the InitDBTables runs, one record per process
    auditRows,   \* committed rows of audit_log_events, in heap order
    reqRows,     \* committed rows of request_info, in heap order
    ins,         \* the InsertEvent call in progress (or the last one)
    calls,       \* InsertEvent calls started so far
    accepted,    \* bag of the request ids whose InsertEvent returned nil
    unsaved,     \* payloads logged as "audit event not saved", in order
    srch,        \* the last Search call: request, fault, outcome
    prev,        \* the Search call before it
    pages,       \* results collected page by page, and by export
    pool,        \* connections checked out of the pool
    win,         \* the last partition window computed on request
    probe        \* the last existence probe: its table, its answer, how many

bootVars == <<clock, ticks, faults, relations, created, boot>>
storeVars == <<auditRows, reqRows>>
insVars == <<ins, calls, accepted, unsaved>>
srchVars == <<srch, prev, pages>>
otherVars == <<pool, win, probe>>
vars == <<bootVars, storeVars, insVars, srchVars, otherVars>>

NULL == "NULL"

\* A Go pointer: nil, or the value pointed to.
Nil == <<>>
Some(v) == <<v>>
Val(p) == p[1]

(***************************************************************************)
(* Bounds of the model.                                                    *)
(***************************************************************************)
NumYears == 2       \* calendar years covered by the model's timeline
MaxTicks == 1       \* clock advances explored in one behaviour
MaxFaults == 1      \* engine errors / deadline expiries injected per behaviour
NumProcs == 2       \* processes running InitDBTables against the same engine
MaxInserts == 2     \* InsertEvent calls in one behaviour
MaxPage == 1        \* largest page number requested
MaxPageSize == 2    \* largest page size requested
MaxFilters == 2     \* filter parameters of one request
MaxPool == 2        \* connections the pool hands out at once
MaxProbes == 2      \* existence probes in one behaviour

(***************************************************************************)
(* Calendar.  Instants are seconds since the first midnight (UTC) of the   *)
(* first modelled year.                                                    *)
(***************************************************************************)
Epoch == [year |-> 2023]
FirstYear == Epoch.year
Years == FirstYear .. (FirstYear + NumYears - 1)
SecondsPerDay == 24 * 60 * 60

IsLeap(y) == (y % 4 = 0 /\ y % 100 # 0) \/ (y % 400 = 0)

DaysIn(y, m) ==
    IF m = 2 THEN (IF IsLeap(y) THEN 29 ELSE 28)
    ELSE IF m \in {4, 6, 9, 11} THEN 30 ELSE 31

RECURSIVE DaysBeforeMonth(_, _)
DaysBeforeMonth(y, m) ==
    IF m = 1 THEN 0 ELSE DaysBeforeMonth(y, m - 1) + DaysIn(y, m - 1)

RECURSIVE DaysBeforeYear(_)
DaysBeforeYear(y) ==
    IF y = FirstYear THEN 0
    ELSE DaysBeforeYear(y - 1) + (IF IsLeap(y - 1) THEN 366 ELSE 365)

\* time.Date(y, m, d, 0, 0, sec, 0, time.UTC)
Date(y, m, d, sec) ==
    (DaysBeforeYear(y) + DaysBeforeMonth(y, m) + (d - 1)) * SecondsPerDay + sec

MonthStart(y, m) == Date(y, m, 1, 0)
MonthEnd(y, m) == MonthStart(y, m) + DaysIn(y, m) * SecondsPerDay

\* The (year, month) of an instant of the modelled timeline.
YearMonthOf(t) ==
    CHOOSE ym \in Years \X (1 .. 12) :
        MonthStart(ym[1], ym[2]) <= t /\ t < MonthEnd(ym[1], ym[2])

DayOfMonth(t) ==
    LET ym == YearMonthOf(t)
    IN  ((t - MonthStart(ym[1], ym[2])) \div SecondsPerDay) + 1

TimelineEnd == MonthEnd(FirstYear + NumYears - 1, 12)

(***************************************************************************)
(* Partition scheme: four partitions per month.  A window is the half-open *)
(* interval [StartDate, EndDate) and is named by year, month and quarter.  *)
(***************************************************************************)
partitionsPerMonth == 4

\* First day of month of quarter q (0-based): days 1, 8, 15, 22.
QuarterStartDay(q) == 1 + 7 * q

\* Mutant: every window is seven days long, also the last of a month.
newPartitionTimeRangeSevenDays(givenTime) ==
    LET ym == YearMonthOf(givenTime)
        d  == DayOfMonth(givenTime)
        qi == (d - 1) \div 7
        q  == IF qi > partitionsPerMonth - 1 THEN partitionsPerMonth - 1 ELSE qi
        s  == Date(ym[1], ym[2], QuarterStartDay(q), 0)
    IN  [year |-> ym[1], month |-> ym[2], quarter |-> q + 1,
         StartDate |-> s, EndDate |-> s + 7 * SecondsPerDay]

newPartitionTimeRange(givenTime) ==
    LET ym == YearMonthOf(givenTime)
        d  == DayOfMonth(givenTime)
        qi == (d - 1) \div 7
        q  == IF qi > partitionsPerMonth - 1 THEN partitionsPerMonth - 1 ELSE qi
        s  == Date(ym[1], ym[2], QuarterStartDay(q), 0)
        e  == IF q = partitionsPerMonth - 1
              THEN MonthEnd(ym[1], ym[2])
              ELSE Date(ym[1], ym[2], QuarterStartDay(q + 1), 0)
    IN  [year |-> ym[1], month |-> ym[2], quarter |-> q + 1,
         StartDate |-> s, EndDate |-> e]

previous(p) == newPartitionTimeRange(p.StartDate - 1)

next(p) == newPartitionTimeRange(p.EndDate)

getPartnameSuffix(p) == <<p.year, p.month, p.quarter>>

Range(seq) == {seq[i] : i \in 1 .. Len(seq)}

\* No window computed yet.
NoWindow ==
    [given |-> -1, current |-> <<>>, previous |-> <<>>, next |-> <<>>]

\* The windows previous, current, next around an instant.
ThreeWindows(now) ==
    LET w == newPartitionTimeRange(now) IN <<previous(w), w, next(w)>>

(***************************************************************************)
(* Tables and the engine's catalog.                                        *)
(***************************************************************************)
auditLogEventsTable == "audit_log_events"
requestInfoTable == "request_info"
allTables == <<auditLogEventsTable, requestInfoTable>>

\* fmt.Sprintf("%s_%s", table, p.getPartnameSuffix())
PartitionName(table, p) == <<table, getPartnameSuffix(p)>>

\* A parent table's name carries the empty suffix.
NoSuffix == <<0, 0, 0>>
ParentName(table) == <<table, NoSuffix>>

ParentRelation(table) ==
    [name |-> ParentName(table), parent |-> NULL, from |-> 0, to |-> 0]

PartitionRelation(table, p) ==
    [name |-> PartitionName(table, p), parent |-> table,
     from |-> p.StartDate, to |-> p.EndDate]

RelationNames(rels) == {r.name : r \in rels}

\* The engine executing one CREATE TABLE statement.  With IF NOT EXISTS an
\* existing relation is left alone and the statement succeeds; without it the
\* engine rejects the duplicate.  A partition needs its parent.
ExecCreate(rels, rel, ifNotExists) ==
    IF rel.name \in RelationNames(rels)
    THEN [ok |-> ifNotExists, rels |-> rels, made |-> FALSE]
    ELSE IF rel.parent # NULL /\ ParentName(rel.parent) \notin RelationNames(rels)
    THEN [ok |-> FALSE, rels |-> rels, made |-> FALSE]
    ELSE [ok |-> TRUE, rels |-> rels \cup {rel}, made |-> TRUE]

\* No existence probe made yet.
NoProbe == [name |-> <<"", NoSuffix>>, ret |-> "none", n |-> 0]

\* Mutant: the parent is created without IF NOT EXISTS.
getCreateStatementUnguarded(table) ==
    [rel |-> ParentRelation(table), ifNotExists |-> FALSE]

\* Table.getCreateStatement: CREATE TABLE IF NOT EXISTS <name> (...)
getCreateStatement(table) ==
    [rel |-> ParentRelation(table), ifNotExists |-> TRUE]

\* Table.getCreatePartitionStatement: create-if-absent of the partition
\* <table>_<suffix> FOR VALUES FROM (StartDate) TO (EndDate).
getCreatePartitionStatement(table, p) ==
    [rel |-> PartitionRelation(table, p), ifNotExists |-> TRUE]

\* createTableAndPartition's list of instants whose partitions are created.
partitionTimes(now) ==
    LET partitionNow == newPartitionTimeRange(now)
    IN  <<previous(partitionNow).StartDate, now, next(partitionNow).StartDate>>

(***************************************************************************)
(* Search: the query builder.  A request s is a SearchQuery record; the    *)
(* built query is its text (as abstract syntax: table, WHERE clauses,      *)
(* ORDER BY, paging placeholders) and its positional argument list.        *)
(***************************************************************************)
rawQ == "raw"
reqInfoQ == "reqinfo"

AuditLogColumns == {"event_time", "log"}

RequestInfoColumns ==
    {"time", "api_name", "access_key", "bucket", "object",
     "time_to_response_ns", "remote_host", "request_id", "user_agent",
     "response_status", "response_status_code", "request_content_length",
     "response_content_length"}

Columns(table) ==
    IF table = auditLogEventsTable THEN AuditLogColumns ELSE RequestInfoColumns

\* Positional arguments, all of one shape so that they can be compared.
TimeArg(t) == [kind |-> "time", n |-> t, s |-> ""]
TextArg(v) == [kind |-> "text", n |-> 0, s |-> v]
IntArg(i)  == [kind |-> "int", n |-> i, s |-> ""]

\* t.Format(time.RFC3339Nano): the instant as text, which the engine reads
\* back as a timestamp.
FormatRFC3339Nano(t) == TimeArg(t)

\* The right-hand sides of a clause: a placeholder $n, the interval literal of
\* the relative-duration predicate, or (kind "literal") a value written into
\* the text.
Dollar(n) == [kind |-> "$", n |-> n]
SecondsInterval(n) == [kind |-> "seconds", n |-> n]

Clause(col, op, rhs) == [col |-> col, op |-> op, rhs |-> rhs]

\* int64(d.Seconds()) of a duration given in milliseconds.
DurationSeconds(ms) == ms \div 1000

\* generateFilterClauses(fParams, dollarStart): one predicate per filter
\* parameter, its value bound positionally.
RECURSIVE generateFilterClauses(_, _)
generateFilterClauses(fParams, dollarStart) ==
    IF fParams = <<>>
    THEN [clauses |-> <<>>, args |-> <<>>, dollarEnd |-> dollarStart]
    ELSE LET rest == generateFilterClauses(Tail(fParams), dollarStart + 1)
         IN  [clauses |-> <<Clause(Head(fParams).col, "match", Dollar(dollarStart))>>
                              \o rest.clauses,
              args |-> <<TextArg(Head(fParams).val)>> \o rest.args,
              dollarEnd |-> rest.dollarEnd]

\* Mutant: the start bound is written into the query text.
timeClausesInterpolated(s, absCol, lastCol) ==
    LET c1 == IF s.TimeStart # Nil
              THEN <<Clause(absCol, ">=",
                            [kind |-> "literal", n |-> Val(s.TimeStart)])>>
              ELSE <<>>
        c2 == IF s.TimeEnd # Nil
              THEN <<Clause(absCol, "<", Dollar(1))>> ELSE <<>>
        a2 == IF s.TimeEnd # Nil
              THEN <<FormatRFC3339Nano(Val(s.TimeEnd))>> ELSE <<>>
        c3 == IF s.LastDuration # Nil
              THEN <<Clause(lastCol, ">=",
                            SecondsInterval(DurationSeconds(Val(s.LastDuration))))>>
              ELSE <<>>
    IN  [clauses |-> c1 \o c2 \o c3, args |-> a2, dollarStart |-> 1 + Len(c2)]

\* The time clauses of one branch of Search.  absCol is the column of the
\* absolute bounds, lastCol the column of the relative-duration predicate.
timeClauses(s, absCol, lastCol) ==
    LET c1 == IF s.TimeStart # Nil
              THEN <<Clause(absCol, ">=", Dollar(1))>> ELSE <<>>
        a1 == IF s.TimeStart # Nil
              THEN <<FormatRFC3339Nano(Val(s.TimeStart))>> ELSE <<>>
        c2 == IF s.TimeEnd # Nil
              THEN <<Clause(absCol, "<", Dollar(Len(c1) + 1))>> ELSE <<>>
        a2 == IF s.TimeEnd # Nil
              THEN <<FormatRFC3339Nano(Val(s.TimeEnd))>> ELSE <<>>
        c3 == IF s.LastDuration # Nil
              THEN <<Clause(lastCol, ">=",
                            SecondsInterval(DurationSeconds(Val(s.LastDuration))))>>
              ELSE <<>>
    IN  [clauses |-> c1 \o c2 \o c3, args |-> a1 \o a2,
         dollarStart |-> 1 + Len(c1) + Len(c2)]

timeOrder(s) == IF s.TimeAscending THEN "ASC" ELSE "DESC"

\* Mutant: OFFSET and LIMIT are numbered from the dollarStart of the time
\* clauses, not from the one generateFilterClauses returns.
buildSelectStaleDollar(s, table, orderCol, tc) ==
    LET f      == generateFilterClauses(s.FParams, tc.dollarStart)
        paged  == s.ExportFormat = ""
        paging == IF paged THEN <<Dollar(tc.dollarStart), Dollar(tc.dollarStart + 1)>>
                  ELSE <<>>
        pargs  == IF paged
                  THEN <<IntArg(s.PageNumber * s.PageSize), IntArg(s.PageSize)>>
                  ELSE <<>>
    IN  [text |-> [from |-> table, where |-> tc.clauses \o f.clauses,
                   orderBy |-> <<orderCol, timeOrder(s)>>, paging |-> paging],
         args |-> tc.args \o f.args \o pargs]

\* The rest of a branch: filter clauses, paging, and the SELECT template.
buildSelect(s, table, orderCol, tc) ==
    LET f      == generateFilterClauses(s.FParams, tc.dollarStart)
        paged  == s.ExportFormat = ""
        paging == IF paged THEN <<Dollar(f.dollarEnd), Dollar(f.dollarEnd + 1)>>
                  ELSE <<>>
        pargs  == IF paged
                  THEN <<IntArg(s.PageNumber * s.PageSize), IntArg(s.PageSize)>>
                  ELSE <<>>
    IN  [text |-> [from |-> table, where |-> tc.clauses \o f.clauses,
                   orderBy |-> <<orderCol, timeOrder(s)>>, paging |-> paging],
         args |-> tc.args \o f.args \o pargs]

\* case rawQ: logEventSelect over audit_log_events.
rawQBuild(s) ==
    buildSelect(s, auditLogEventsTable, "event_time",
                timeClauses(s, "event_time", "event_time"))

\* case reqInfoQ: reqInfoSelect over request_info.  The relative-duration
\* clause is written with event_time.
reqInfoQBuild(s) ==
    buildSelect(s, requestInfoTable, "time",
                timeClauses(s, "time", "event_time"))

(***************************************************************************)
(* The engine executing a SELECT: it resolves the columns the text names   *)
(* against the table, binds the placeholders to the argument list, keeps   *)
(* the committed rows that satisfy every clause, orders them by the ORDER  *)
(* BY column (rows with equal keys in any order) and applies OFFSET/LIMIT. *)
(***************************************************************************)
Placeholders(text) ==
    {text.where[i].rhs.n : i \in {j \in 1 .. Len(text.where) :
                                    text.where[j].rhs.kind = "$"}}
    \cup {text.paging[i].n : i \in 1 .. Len(text.paging)}

\* The statement is rejected: unknown table or column, or placeholders that
\* are not exactly $1..$n for the n arguments supplied.
QueryRejected(q, rels) ==
    \/ ParentName(q.text.from) \notin RelationNames(rels)
    \/ \E i \in 1 .. Len(q.text.where) :
           q.text.where[i].col \notin Columns(q.text.from)
    \/ q.text.orderBy[1] \notin Columns(q.text.from)
    \/ Placeholders(q.text) # 1 .. Len(q.args)

ClauseHolds(row, c, args, now) ==
    IF c.rhs.kind = "seconds" THEN row[c.col] >= now - c.rhs.n
    ELSE IF c.rhs.kind = "literal"
    THEN (IF c.op = ">=" THEN row[c.col] >= c.rhs.n ELSE row[c.col] < c.rhs.n)
    ELSE IF c.op = ">=" THEN row[c.col] >= args[c.rhs.n].n
    ELSE IF c.op = "<" THEN row[c.col] < args[c.rhs.n].n
    ELSE row[c.col] = args[c.rhs.n].s

\* Indices (into the table's committed rows) of the rows the WHERE keeps.
Matched(q, rows, now) ==
    {i \in 1 .. Len(rows) :
        \A k \in 1 .. Len(q.text.where) :
            ClauseHolds(rows[i], q.text.where[k], q.args, now)}

InOrder(a, b, dir) == IF dir = "ASC" THEN a <= b ELSE a >= b

\* Every sequence of the matched rows the ORDER BY allows.
Orders(q, rows, now) ==
    LET m   == Matched(q, rows, now)
        col == q.text.orderBy[1]
    IN  {o \in [1 .. Cardinality(m) -> m] :
            /\ \A i, j \in DOMAIN o : i # j => o[i] # o[j]
            /\ \A i, j \in DOMAIN o :
                   i < j => InOrder(rows[o[i]][col], rows[o[j]][col],
                                    q.text.orderBy[2])}

Min(a, b) == IF a <= b THEN a ELSE b

\* OFFSET $k LIMIT $k+1 applied to an ordered result.
ApplyPaging(q, o) ==
    IF q.text.paging = <<>> THEN o
    ELSE LET off == q.args[q.text.paging[1].n].n
             lim == q.args[q.text.paging[2].n].n
         IN  SubSeq(o, off + 1, Min(off + lim, Len(o)))

\* The rows a query returns when the engine picks the order o.
ResultRows(q, rows, o) ==
    LET po == ApplyPaging(q, o) IN [i \in 1 .. Len(po) |-> rows[po[i]]]

(***************************************************************************)
(* Search: the result exporter.  The sink is the sequence of items written *)
(* to w.  A fault is what goes wrong during this call: the query fails, the*)
(* cursor fails after `at` rows, row at+1 cannot be decoded, or the write  *)
(* of item at+1 fails.                                                     *)
(***************************************************************************)
RECURSIVE Concat(_)
Concat(ss) == IF ss = <<>> THEN <<>> ELSE Head(ss) \o Concat(Tail(ss))

\* The rows a reader of the sink finds in it, in the order written.
SinkRows(sink) == Concat([i \in 1 .. Len(sink) |-> sink[i].rows])

NoFault == [kind |-> "none", at |-> 0]

Item(kind, rows) == [kind |-> kind, rows |-> rows]

RowItems(kind, rows, n) == [i \in 1 .. n |-> Item(kind, <<rows[i]>>)]

SearchReturn(ret, q, executed, sink, result) ==
    [ret |-> ret, query |-> q, executed |-> executed, sink |-> sink,
     result |-> result]

\* for rows.Next() { ScanRow; Encode } of the ndjson branches.
exportNdjson(q, rows, fault) ==
    LET n == Len(rows)
    IN  IF fault.kind = "cursor"
        THEN \* rows.Next() returns false; rows.Err() is not consulted
             SearchReturn("nil", q, TRUE, RowItems("json", rows, fault.at), rows)
        ELSE IF fault.kind \in {"scan", "write"}
        THEN SearchReturn("err", q, TRUE, RowItems("json", rows, fault.at), rows)
        ELSE SearchReturn("nil", q, TRUE, RowItems("json", rows, n), rows)

\* The csv branches: header, one record per row, Flush and Error.
exportCsv(q, rows, fault) ==
    LET n      == Len(rows)
        header == <<Item("header", <<>>)>>
    IN  IF fault.kind = "cursor"
        THEN SearchReturn("nil", q, TRUE,
                          header \o RowItems("csv", rows, fault.at), rows)
        ELSE IF fault.kind = "scan"
        THEN SearchReturn("err", q, TRUE,
                          header \o RowItems("csv", rows, fault.at), rows)
        ELSE IF fault.kind = "write"
        THEN SearchReturn("err", q, TRUE,
                 IF fault.at = 0 THEN <<>>
                 ELSE header \o RowItems("csv", rows, fault.at - 1), rows)
        ELSE SearchReturn("nil", q, TRUE,
                          header \o RowItems("csv", rows, n), rows)

\* The default branches: sqlscan.ScanAll (which reports the cursor's error),
\* then one Encode of the whole page.
exportPage(q, rows, fault) ==
    IF fault.kind \in {"cursor", "scan", "write"}
    THEN SearchReturn("err", q, TRUE, <<>>, rows)
    ELSE SearchReturn("nil", q, TRUE, <<Item("array", rows)>>, rows)

\* switch s.ExportFormat
export(s, q, rows, fault) ==
    IF s.ExportFormat = "ndjson" THEN exportNdjson(q, rows, fault)
    ELSE IF s.ExportFormat = "csv" THEN exportCsv(q, rows, fault)
    ELSE exportPage(q, rows, fault)

\* Whether the fault can happen in this call: a row-level fault needs the
\* row, a write fault needs the write.
FaultApplies(s, fault, n) ==
    CASE fault.kind \in {"none", "query"} -> fault.at = 0
      [] fault.kind \in {"cursor", "scan"} -> fault.at < n
      [] fault.kind = "write" ->
             IF s.ExportFormat = "ndjson" THEN fault.at < n
             ELSE IF s.ExportFormat = "csv" THEN fault.at <= n
             ELSE fault.at = 0

NoQuery ==
    [text |-> [from |-> "", where |-> <<>>, orderBy |-> <<"", "">>,
               paging |-> <<>>],
     args |-> <<>>]

\* switch s.Query: the query Search builds (none for an unknown name).
buildQuery(s) ==
    IF s.Query = rawQ THEN rawQBuild(s)
    ELSE IF s.Query = reqInfoQ THEN reqInfoQBuild(s)
    ELSE NoQuery

(***************************************************************************)
(* Events and payloads.  An event carries the fields InsertEvent projects; *)
(* a content length is a pointer: Nil when it cannot be derived.           *)
(***************************************************************************)
Event(id, t, api, bucket, reqLen, respLen) ==
    [RequestID |-> id, Time |-> t, APIName |-> api, Bucket |-> bucket,
     reqLen |-> reqLen, respLen |-> respLen]

NoEvent == Event("", 0, "", "", Nil, Nil)

EmptyPayload == [kind |-> "empty", event |-> NoEvent]
GarbagePayload == [kind |-> "garbage", event |-> NoEvent]
JSONPayload(e) == [kind |-> "json", event |-> e]

\* isEmptyEvent(eventBytes)
isEmptyEvent(payload) == payload.kind = "empty"

\* parseJSONEvent(eventBytes)
parseJSONEvent(payload) ==
    IF payload.kind = "json"
    THEN [ok |-> TRUE, event |-> payload.event]
    ELSE [ok |-> FALSE, event |-> NoEvent]

\* event.getRequestContentLength / getResponseContentLength: (value, err).
getRequestContentLength(e) ==
    IF e.reqLen = Nil THEN [err |-> TRUE, len |-> 0]
    ELSE [err |-> FALSE, len |-> Val(e.reqLen)]

getResponseContentLength(e) ==
    IF e.respLen = Nil THEN [err |-> TRUE, len |-> 0]
    ELSE [err |-> FALSE, len |-> Val(e.respLen)]

\* The row of insertAuditLogEvent: (event_time, log).
AuditLogRow(e) == [event_time |-> e.Time, log |-> e]

\* The row of insertRequestInfo; reqLen and respLen stay nil when the length
\* could not be derived.
RequestInfoRow(e) ==
    LET rq == getRequestContentLength(e)
        rs == getResponseContentLength(e)
    IN  [time |-> e.Time, api_name |-> e.APIName, bucket |-> e.Bucket,
         request_id |-> e.RequestID,
         request_content_length |-> IF rq.err THEN Nil ELSE Some(rq.len),
         response_content_length |-> IF rs.err THEN Nil ELSE Some(rs.len)]

\* The request id a row of either table belongs to.
RowID(row) ==
    IF "log" \in DOMAIN row THEN row.log.RequestID ELSE row.request_id

\* How many rows of a sequence belong to request id `id`.
CountID(rows, id) == Cardinality({i \in 1 .. Len(rows) : RowID(rows[i]) = id})

\* The engine inserting a row with time t into a partitioned table: it needs
\* a partition whose range holds t.
InsertRouted(rels, table, t) ==
    \E rel \in rels : rel.parent = table /\ rel.from <= t /\ t < rel.to

(***************************************************************************)
(* Search requests.                                                        *)
(***************************************************************************)
SearchQuery(q, ts, te, last, fp, asc, ef, pn, ps) ==
    [Query |-> q, TimeStart |-> ts, TimeEnd |-> te, LastDuration |-> last,
     FParams |-> fp, TimeAscending |-> asc, ExportFormat |-> ef,
     PageNumber |-> pn, PageSize |-> ps]

NoRequest == SearchQuery("", Nil, Nil, Nil, <<>>, FALSE, "", 0, 0)

FilterParam(col, val) == [col |-> col, val |-> val]

\* Columns a filter parameter may name.
AllowedFilterColumns ==
    {"api_name", "access_key", "bucket", "object", "remote_host",
     "request_id", "user_agent", "response_status"}

\* Mutant: the exclusion of relative and absolute bounds is not checked.
searchQueryValidMixedTimes(s) ==
    /\ s.Query \in {rawQ, reqInfoQ}
    /\ (s.ExportFormat = "" => s.PageSize > 0)
    /\ \A i \in 1 .. Len(s.FParams) : s.FParams[i].col \in AllowedFilterColumns

\* Mutant: the page size is not checked.
searchQueryValidAnyPageSize(s) ==
    /\ s.Query \in {rawQ, reqInfoQ}
    /\ ~(s.LastDuration # Nil /\ (s.TimeStart # Nil \/ s.TimeEnd # Nil))
    /\ \A i \in 1 .. Len(s.FParams) : s.FParams[i].col \in AllowedFilterColumns

\* Validation of a request before Search is called: a known query name, a
\* relative duration only without absolute bounds, a positive page size for a
\* paged request, allow-listed filter columns.
searchQueryValid(s) ==
    /\ s.Query \in {rawQ, reqInfoQ}
    /\ ~(s.LastDuration # Nil /\ (s.TimeStart # Nil \/ s.TimeEnd # Nil))
    /\ (s.ExportFormat = "" => s.PageSize > 0)
    /\ \A i \in 1 .. Len(s.FParams) : s.FParams[i].col \in AllowedFilterColumns

\* The committed rows of a table, as a query sees them.
TableRows(table) == IF table = auditLogEventsTable THEN auditRows ELSE reqRows

\* Every outcome Search(s) can have in the current state under `fault`.
SearchOutcomes(s, fault) ==
    LET q == buildQuery(s)
    IN  IF s.Query \notin {rawQ, reqInfoQ}
        THEN IF fault = NoFault
             THEN {SearchReturn("err", NoQuery, FALSE, <<>>, <<>>)} ELSE {}
        ELSE IF fault.kind = "query"
        THEN {SearchReturn("err", q, TRUE, <<>>, <<>>)}
        ELSE IF QueryRejected(q, relations)
        THEN IF fault = NoFault
             THEN {SearchReturn("err", q, TRUE, <<>>, <<>>)} ELSE {}
        ELSE LET rows == TableRows(q.text.from)
             IN  {export(s, q, ResultRows(q, rows, o), fault) :
                     o \in {oo \in Orders(q, rows, clock) :
                               FaultApplies(s, fault,
                                   Len(ApplyPaging(q, oo)))}}

SearchRecord(s, fault, res, valid) ==
    [req |-> s, fault |-> fault, res |-> res, valid |-> valid]

SrchIdle ==
    [req |-> NoRequest, fault |-> NoFault,
     res |-> SearchReturn("none", NoQuery, FALSE, <<>>, <<>>),
     valid |-> TRUE]

Faults ==
    {NoFault} \cup
    {[kind |-> k, at |-> n] : k \in {"cursor", "scan", "write"},
                              n \in 0 .. MaxInserts}
    \cup {[kind |-> "query", at |-> 0]}

\* srch holds the outcome of the Search call that has just returned; the next
\* step of the system leaves it behind.
ForgetSearch ==
    /\ srch' = SrchIdle
    /\ UNCHANGED <<prev, pages>>

SearchDone ==
    /\ srch # SrchIdle
    /\ ForgetSearch
    /\ UNCHANGED <<bootVars, storeVars, insVars, otherVars>>

\* A request that validation rejects never reaches Search.
RejectSearch(s) ==
    /\ srch = SrchIdle
    /\ ~searchQueryValid(s)
    /\ srch' = SearchRecord(s, NoFault,
                   SearchReturn("invalid", NoQuery, FALSE, <<>>, <<>>), FALSE)
    /\ UNCHANGED <<bootVars, storeVars, insVars, prev, pages, otherVars>>

\* DBClient.Search(ctx, s, w) on a validated request; srch becomes what the
\* call returned and wrote.  QueryContext takes a connection (with none free
\* it waits until the deadline and fails); the deferred rows.Close gives it
\* back on every return.
SearchCall(s, fault) ==
    /\ searchQueryValid(s)
    /\ fault # NoFault => faults < MaxFaults
    /\ pool < MaxPool \/ fault.kind = "query"
    /\ \E res \in SearchOutcomes(s, fault) :
           srch' = SearchRecord(s, fault, res, TRUE)
    /\ faults' = IF fault # NoFault THEN faults + 1 ELSE faults
    /\ UNCHANGED <<clock, ticks, relations, created, boot>>
    /\ UNCHANGED <<storeVars, insVars, otherVars>>

Search(s, fault) ==
    /\ srch = SrchIdle
    /\ SearchCall(s, fault)
    /\ UNCHANGED <<prev, pages>>

(***************************************************************************)
(* InsertEvent, one database call per step; ins.pc is the call it makes    *)
(* next.  Rows written through the transaction stay in ins.txAudit and     *)
(* ins.txReq, invisible to queries, until Commit.                          *)
(***************************************************************************)
InsIdle ==
    [pc |-> "idle", payload |-> EmptyPayload, event |-> NoEvent,
     txAudit |-> <<>>, txReq |-> <<>>, ret |-> "none",
     before |-> <<0, 0>>, logged |-> 0, failedAt |-> "none"]

TxOpen == ins.pc \in {"insert1", "insert2", "commit"}

\* Mutant: the error is returned without the deferred log seeing it.
InsertReturnErrUnlogged ==
    /\ pool' = IF TxOpen THEN pool - 1 ELSE pool
    /\ ins' = [ins EXCEPT !.pc = "idle", !.ret = "err", !.txAudit = <<>>,
                          !.txReq = <<>>, !.failedAt = ins.pc]
    /\ unsaved' = unsaved
    /\ UNCHANGED <<calls, accepted, storeVars>>

\* A return with err # nil after the deferred log was installed: the deferred
\* tx.Rollback drops the transaction's rows and gives its connection back,
\* the deferred log prints the payload.
InsertReturnErr ==
    /\ pool' = IF TxOpen THEN pool - 1 ELSE pool
    /\ ins' = [ins EXCEPT !.pc = "idle", !.ret = "err", !.txAudit = <<>>,
                          !.txReq = <<>>, !.logged = ins.logged + 1,
                          !.failedAt = ins.pc]
    /\ unsaved' = Append(unsaved, ins.payload)
    /\ UNCHANGED <<calls, accepted, storeVars>>

\* Mutant: the deferred log is installed and the payload parsed before the
\* empty payload is looked at.
InsertEventParsesFirst(payload) ==
    LET call   == [InsIdle EXCEPT !.payload = payload,
                       !.before = <<Len(auditRows), Len(reqRows)>>]
        parsed == parseJSONEvent(payload)
    IN  /\ ins.pc = "idle"
        /\ calls < MaxInserts
        /\ calls' = calls + 1
        /\ IF ~parsed.ok
           THEN /\ ins' = [call EXCEPT !.ret = "err", !.logged = 1,
                                       !.failedAt = "parse"]
                /\ unsaved' = Append(unsaved, payload)
           ELSE /\ ins' = [call EXCEPT !.pc = "begin", !.event = parsed.event]
                /\ unsaved' = unsaved
        /\ UNCHANGED <<accepted, storeVars, bootVars, otherVars>>
        /\ ForgetSearch

\* InsertEvent up to BeginTx: the empty-payload return and the parse.
InsertEvent(payload) ==
    LET call   == [InsIdle EXCEPT !.payload = payload,
                       !.before = <<Len(auditRows), Len(reqRows)>>]
        parsed == parseJSONEvent(payload)
    IN  /\ ins.pc = "idle"
        /\ calls < MaxInserts
        /\ calls' = calls + 1
        /\ IF isEmptyEvent(payload)
           THEN ins' = [call EXCEPT !.ret = "nil"] /\ unsaved' = unsaved
           ELSE IF ~parsed.ok
           THEN /\ ins' = [call EXCEPT !.ret = "err", !.logged = 1,
                                       !.failedAt = "parse"]
                /\ unsaved' = Append(unsaved, payload)
           ELSE /\ ins' = [call EXCEPT !.pc = "begin", !.event = parsed.event]
                /\ unsaved' = unsaved
        /\ UNCHANGED <<accepted, storeVars, bootVars, otherVars>>
        /\ ForgetSearch

\* tx, err := c.BeginTx(ctx, nil): the transaction takes a connection of the
\* pool (with none free it waits until the deadline, see InsertFault).
BeginTx ==
    /\ ins.pc = "begin"
    /\ pool < MaxPool
    /\ pool' = pool + 1
    /\ ins' = [ins EXCEPT !.pc = "insert1"]
    /\ UNCHANGED <<calls, accepted, unsaved, storeVars, bootVars, win, probe>>
    /\ ForgetSearch

\* Mutant: the first insert goes through the pool (c.ExecContext) and is
\* committed on its own.
ExecInsertAuditLogEventAutocommit ==
    /\ ins.pc = "insert1"
    /\ IF InsertRouted(relations, auditLogEventsTable, ins.event.Time)
       THEN /\ auditRows' = Append(auditRows, AuditLogRow(ins.event))
            /\ ins' = [ins EXCEPT !.pc = "insert2"]
            /\ UNCHANGED <<calls, accepted, unsaved, reqRows, pool>>
       ELSE InsertReturnErr
    /\ UNCHANGED <<bootVars, win, probe>>
    /\ ForgetSearch

\* tx.ExecContext(ctx, insertAuditLogEvent, event.Time, eventJSON)
ExecInsertAuditLogEvent ==
    /\ ins.pc = "insert1"
    /\ IF InsertRouted(relations, auditLogEventsTable, ins.event.Time)
       THEN /\ ins' = [ins EXCEPT !.pc = "insert2",
                          !.txAudit = Append(ins.txAudit, AuditLogRow(ins.event))]
            /\ UNCHANGED <<calls, accepted, unsaved, storeVars, pool>>
       ELSE InsertReturnErr
    /\ UNCHANGED <<bootVars, win, probe>>
    /\ ForgetSearch

\* Mutant: an error of a content-length derivation is returned.
ExecInsertRequestInfoStrict ==
    /\ ins.pc = "insert2"
    /\ IF /\ InsertRouted(relations, requestInfoTable, ins.event.Time)
          /\ ~getRequestContentLength(ins.event).err
          /\ ~getResponseContentLength(ins.event).err
       THEN /\ ins' = [ins EXCEPT !.pc = "commit",
                          !.txReq = Append(ins.txReq, RequestInfoRow(ins.event))]
            /\ UNCHANGED <<calls, accepted, unsaved, storeVars, pool>>
       ELSE InsertReturnErr
    /\ UNCHANGED <<bootVars, win, probe>>
    /\ ForgetSearch

\* event.getRequestContentLength, event.getResponseContentLength (their
\* errors leave reqLen, respLen nil and are overwritten by the insert's), then
\* tx.ExecContext(ctx, insertRequestInfo, event.Time, ..., reqLen, respLen)
ExecInsertRequestInfo ==
    /\ ins.pc = "insert2"
    /\ IF InsertRouted(relations, requestInfoTable, ins.event.Time)
       THEN /\ ins' = [ins EXCEPT !.pc = "commit",
                          !.txReq = Append(ins.txReq, RequestInfoRow(ins.event))]
            /\ UNCHANGED <<calls, accepted, unsaved, storeVars, pool>>
       ELSE InsertReturnErr
    /\ UNCHANGED <<bootVars, win, probe>>
    /\ ForgetSearch

\* return tx.Commit(): the transaction's rows become visible together.
Commit ==
    /\ ins.pc = "commit"
    /\ auditRows' = auditRows \o ins.txAudit
    /\ reqRows' = reqRows \o ins.txReq
    /\ ins' = [ins EXCEPT !.pc = "idle", !.ret = "nil", !.txAudit = <<>>,
                          !.txReq = <<>>]
    /\ accepted' = accepted (+) SetToBag({ins.event.RequestID})
    /\ pool' = pool - 1
    /\ UNCHANGED <<calls, unsaved, bootVars, win, probe>>
    /\ ForgetSearch

\* The pending database call (BeginTx, an insert, Commit) or the JSON
\* re-encoding fails, or the 15 s deadline expires: InsertEvent returns the
\* error.
InsertFault ==
    /\ ins.pc \in {"begin", "insert1", "insert2", "commit"}
    /\ faults < MaxFaults
    /\ faults' = faults + 1
    /\ InsertReturnErr
    /\ UNCHANGED <<clock, ticks, relations, created, boot, win, probe>>
    /\ ForgetSearch

(***************************************************************************)
(* InitDBTables, one statement per step so that two processes interleave.  *)
(* boot[r].pc is the statement process r sends next.                       *)
(***************************************************************************)
Procs == 1 .. NumProcs

BootIdle ==
    [pc |-> "idle", ti |-> 1, pi |-> 1, times |-> <<>>, nows |-> <<>>,
     sent |-> <<>>, ret |-> "none", cause |-> NULL]

\* Instants at which a process may read the clock for the first time: the last
\* second of a year, of a leap February, of a window inside a month, and the
\* middle of a window.
BootClocks ==
    { Date(FirstYear, 12, 31, SecondsPerDay - 1),
      Date(FirstYear + 1, 2, 29, SecondsPerDay - 1),
      Date(FirstYear, 6, 7, SecondsPerDay - 1),
      Date(FirstYear, 4, 10, 3600) }

\* No rows, no InsertEvent and no Search yet.
StoreIdle ==
    /\ auditRows = <<>>
    /\ reqRows = <<>>
    /\ ins = InsIdle
    /\ calls = 0
    /\ accepted = EmptyBag
    /\ unsaved = <<>>
    /\ srch = SrchIdle
    /\ prev = SrchIdle
    /\ pages = <<>>
    /\ pool = 0
    /\ win = NoWindow
    /\ probe = NoProbe

BootVarsInit ==
    /\ ticks = 0
    /\ faults = 0
    /\ relations = {}
    /\ created = EmptyBag
    /\ boot = [r \in Procs |-> BootIdle]
    /\ StoreIdle

\* InitDBTables / createTables: the call starts with the first table.
InitDBTables(r) ==
    /\ boot[r].pc = "idle"
    /\ boot' = [boot EXCEPT ![r].pc = "parent", ![r].ti = 1]
    /\ UNCHANGED <<clock, ticks, faults, relations, created>>
    /\ UNCHANGED <<storeVars, insVars, srchVars, otherVars>>

\* The record of a run that returns err.
BootReturnErr(b, sent, cause) ==
    [b EXCEPT !.pc = "done", !.ret = "err", !.cause = cause, !.sent = sent]

\* createTableAndPartition, first half: create the parent table, then read the
\* clock and compute the three instants whose partitions are to be created.
createTableAndPartition(r) ==
    LET b    == boot[r]
        stmt == getCreateStatement(allTables[b.ti])
        res  == ExecCreate(relations, stmt.rel, stmt.ifNotExists)
        sent == Append(b.sent, stmt.rel)
    IN  /\ b.pc = "parent"
        /\ relations' = res.rels
        /\ created' = IF res.made THEN created (+) SetToBag({stmt.rel.name})
                      ELSE created
        /\ boot' = [boot EXCEPT ![r] =
               IF ~res.ok THEN BootReturnErr(b, sent, "engine")
               ELSE [b EXCEPT !.pc = "partition", !.pi = 1, !.sent = sent,
                              !.times = partitionTimes(clock),
                              !.nows = Append(b.nows, clock)]]
        /\ UNCHANGED <<clock, ticks, faults>>
        /\ UNCHANGED <<storeVars, insVars, srchVars, otherVars>>

\* createTablePartition for the pi-th instant of the current table, and the
\* loops of createTableAndPartition and createTables around it.
createTablePartition(r) ==
    LET b     == boot[r]
        table == allTables[b.ti]
        stmt  == getCreatePartitionStatement(table,
                     newPartitionTimeRange(b.times[b.pi]))
        res   == ExecCreate(relations, stmt.rel, stmt.ifNotExists)
        sent  == Append(b.sent, stmt.rel)
    IN  /\ b.pc = "partition"
        /\ relations' = res.rels
        /\ created' = IF res.made THEN created (+) SetToBag({stmt.rel.name})
                      ELSE created
        /\ boot' = [boot EXCEPT ![r] =
               IF ~res.ok THEN BootReturnErr(b, sent, "engine")
               ELSE IF b.pi < Len(b.times)
                    THEN [b EXCEPT !.pi = b.pi + 1, !.sent = sent]
               ELSE IF b.ti < Len(allTables)
                    THEN [b EXCEPT !.pc = "parent", !.ti = b.ti + 1, !.sent = sent]
               ELSE [b EXCEPT !.pc = "done", !.ret = "nil", !.sent = sent]]
        /\ UNCHANGED <<clock, ticks, faults>>
        /\ UNCHANGED <<storeVars, insVars, srchVars, otherVars>>

\* The statement process r is waiting on fails in the engine or its context
\* deadline (2 s) expires: ExecContext returns an error, the run returns it.
BootFault(r) ==
    /\ boot[r].pc \in {"parent", "partition"}
    /\ faults < MaxFaults
    /\ faults' = faults + 1
    /\ boot' = [boot EXCEPT ![r] = BootReturnErr(boot[r], boot[r].sent, "fault")]
    /\ UNCHANGED <<clock, ticks, relations, created>>
    /\ UNCHANGED <<storeVars, insVars, srchVars, otherVars>>

\* Time passes.
Tick ==
    /\ ticks < MaxTicks
    /\ clock + 1 < TimelineEnd
    /\ clock' = clock + 1
    /\ ticks' = ticks + 1
    /\ UNCHANGED <<faults, relations, created, boot>>
    /\ UNCHANGED <<storeVars, insVars, otherVars>>
    /\ ForgetSearch

BootInit ==
    /\ clock \in BootClocks
    /\ BootVarsInit

BootNext ==
    \/ \E r \in Procs : InitDBTables(r)
    \/ \E r \in Procs : createTableAndPartition(r)
    \/ \E r \in Procs : createTablePartition(r)
    \/ \E r \in Procs : BootFault(r)
    \/ Tick

SpecBoot == BootInit /\ [][BootNext]_vars

(***************************************************************************)
(* The store in service: the state after a successful InitDBTables, then   *)
(* InsertEvent and Search calls from concurrent request handlers.          *)
(***************************************************************************)
\* The catalog a run of InitDBTables leaves when it read the clock at n1 for
\* audit_log_events and at n2 for request_info.
Bootstrapped(n1, n2) ==
    {ParentRelation(allTables[i]) : i \in 1 .. Len(allTables)}
    \cup {PartitionRelation(auditLogEventsTable, w) : w \in Range(ThreeWindows(n1))}
    \cup {PartitionRelation(requestInfoTable, w) : w \in Range(ThreeWindows(n2))}

\* The process started in the last second of a partition window.
StartupClock == Date(FirstYear, 6, 7, SecondsPerDay - 1)

\* Two events of the same instant in the current window, and a late event in
\* the previous window.
EventA == Event("A", StartupClock - 1, "PutObject", "b1", Nil, Some(0))
EventB == Event("B", StartupClock - 1, "GetObject", "b1", Some(5), Nil)
EventP ==
    Event("P", previous(newPartitionTimeRange(StartupClock)).StartDate + 10,
          "PutObject", "b2", Some(7), Nil)
Events == {EventA, EventB, EventP}

\* Payloads submitted to the store in service.
Payloads ==
    {EmptyPayload, GarbagePayload, JSONPayload(EventA), JSONPayload(EventP)}

ExportFormats == {"", "ndjson", "csv"}

\* Time ranges of the requests: none; absolute bounds around all events;
\* an end bound at the instant of EventA (exclusive); a relative window of
\* 2.5 s; a relative window together with a start bound.
ServiceTimeRanges ==
    { <<Nil, Nil, Nil>>,
      <<Some(EventP.Time), Some(StartupClock + 10), Nil>>,
      <<Nil, Some(EventA.Time), Nil>>,
      <<Nil, Nil, Some(2500)>>,
      <<Some(EventP.Time), Nil, Some(2500)>> }

\* Export mode with page number and page size; the two are supplied only with
\* export mode none, and with a mode that Search does not know.
Pagings ==
    {<<"", pn, ps>> : pn \in 0 .. MaxPage, ps \in 0 .. MaxPageSize}
    \cup {<<ef, 0, 0>> : ef \in ExportFormats \ {""}}
    \cup {<<"xml", 0, 1>>}

ServiceRequests ==
    {SearchQuery(q, tr[1], tr[2], tr[3], fp, FALSE, pg[1], pg[2], pg[3]) :
        q \in {rawQ, reqInfoQ}, tr \in ServiceTimeRanges,
        fp \in {<<>>, <<FilterParam("api_name", "PutObject")>>},
        pg \in Pagings}

Init ==
    /\ \E n2 \in {StartupClock, StartupClock + 1} :
          /\ clock = n2
          /\ relations = Bootstrapped(StartupClock, n2)
    /\ created = SetToBag(RelationNames(relations))
    /\ ticks = 0
    /\ faults = 0
    /\ boot = [r \in Procs |-> BootIdle]
    /\ StoreIdle

Next ==
    \/ \E p \in Payloads : InsertEvent(p)
    \/ BeginTx
    \/ ExecInsertAuditLogEvent
    \/ ExecInsertRequestInfo
    \/ Commit
    \/ InsertFault
    \/ srch = SrchIdle /\ \E s \in ServiceRequests : RejectSearch(s)
    \/ srch = SrchIdle /\ \E s \in ServiceRequests, f \in Faults : Search(s, f)
    \/ SearchDone
    \/ Tick

Spec == Init /\ [][Next]_vars

(***************************************************************************)
(* Paging: one request is asked page by page and as an export, over a      *)
(* table content that does not change.                                     *)
(***************************************************************************)
PageResult(done, ret, rows) == [done |-> done, ret |-> ret, rows |-> rows]

NotFetched == PageResult(FALSE, "none", <<>>)

PageNumbers == 0 .. MaxPage

\* The requests asked page by page: both targets, no time range or bounds
\* around all events or a relative window, with and without a filter, both
\* sort directions, every page size.
PageBases ==
    {SearchQuery(q, tr[1], tr[2], tr[3], fp, asc, "", 0, k) :
        q \in {rawQ, reqInfoQ},
        tr \in { <<Nil, Nil, Nil>>,
                 <<Some(EventP.Time), Some(StartupClock + 10), Nil>>,
                 <<Nil, Nil, Some(2500)>> },
        fp \in {<<>>, <<FilterParam("api_name", "PutObject")>>},
        asc \in BOOLEAN,
        k \in 1 .. MaxPageSize}

\* Table contents: with and without two events of the same instant.
PageContents == { <<EventP, EventA>>, <<EventP, EventA, EventB>> }

PageRequest(base, n) == [base EXCEPT !.PageNumber = n]

ExportRequest(base, ef) ==
    [base EXCEPT !.ExportFormat = ef, !.PageNumber = 0, !.PageSize = 0]

Returned(res) == PageResult(TRUE, res.ret, SinkRows(res.sink))

\* Search for page n of the request.
FetchPage(n) ==
    /\ ~pages.page[n + 1].done
    /\ SearchCall(PageRequest(pages.base, n), NoFault)
    /\ pages' = [pages EXCEPT !.page[n + 1] = Returned(srch'.res)]
    /\ UNCHANGED prev

\* Search for the same request in an export mode.
ExportAll(ef) ==
    /\ ~pages.export.done
    /\ SearchCall(ExportRequest(pages.base, ef), NoFault)
    /\ pages' = [pages EXCEPT !.export = Returned(srch'.res)]
    /\ UNCHANGED prev

PagesInit ==
    /\ clock = StartupClock
    /\ relations = Bootstrapped(StartupClock, StartupClock)
    /\ created = SetToBag(RelationNames(relations))
    /\ ticks = 0
    /\ faults = 0
    /\ boot = [r \in Procs |-> BootIdle]
    /\ \E content \in PageContents :
          /\ auditRows = [i \in 1 .. Len(content) |-> AuditLogRow(content[i])]
          /\ reqRows = [i \in 1 .. Len(content) |-> RequestInfoRow(content[i])]
          /\ accepted = SetToBag({content[i].RequestID : i \in 1 .. Len(content)})
          /\ calls = Len(content)
    /\ ins = InsIdle
    /\ unsaved = <<>>
    /\ srch = SrchIdle
    /\ prev = SrchIdle
    /\ pool = 0
    /\ win = NoWindow
    /\ probe = NoProbe
    /\ \E base \in PageBases :
          pages = [base |-> base,
                   page |-> [n \in 1 .. MaxPage + 1 |-> NotFetched],
                   export |-> NotFetched]

PagesNext ==
    \/ \E n \in PageNumbers : FetchPage(n)
    \/ \E ef \in ExportFormats \ {""} : ExportAll(ef)

SpecPages == PagesInit /\ [][PagesNext]_vars

(***************************************************************************)
(* Query building: two requests in a row, the second of the same form as   *)
(* the first with values of its own.                                       *)
(***************************************************************************)
RECURSIVE SeqsUpTo(_, _)
SeqsUpTo(S, n) ==
    IF n = 0 THEN {<<>>}
    ELSE LET shorter == SeqsUpTo(S, n - 1)
         IN  shorter \cup {Append(q, x) : q \in shorter, x \in S}

QueryInstants == {EventP.Time, StartupClock}

QueryDurations == {1000, 1500, 2000}

QueryValues == {"PutObject", "x' OR '1'='1"}

QueryFilters ==
    SeqsUpTo({FilterParam(c, v) : c \in {"api_name", "bucket"},
                                  v \in QueryValues},
             MaxFilters)

\* Absolute bounds in every combination, relative windows, and a relative
\* window together with a start bound.
QueryTimeRanges ==
    {<<ts, te, Nil>> : ts, te \in {Nil} \cup {Some(t) : t \in QueryInstants}}
    \cup {<<Nil, Nil, Some(d)>> : d \in QueryDurations}
    \cup {<<Some(StartupClock), Nil, Some(1000)>>}

QueryPageNumbers == {0, MaxPage}

QueryPageSizes == {1, MaxPageSize}

QueryPagings ==
    {<<"", pn, ps>> : pn \in QueryPageNumbers, ps \in {0} \cup QueryPageSizes}
    \cup {<<ef, 0, 0>> : ef \in ExportFormats \ {""}}

QueryRequests ==
    {SearchQuery(q, tr[1], tr[2], tr[3], fp, asc, pg[1], pg[2], pg[3]) :
        q \in {rawQ, reqInfoQ}, tr \in QueryTimeRanges, fp \in QueryFilters,
        asc \in BOOLEAN, pg \in QueryPagings}

\* The request s carrying other values: the bounds, duration, filter values,
\* page number and page size it has are replaced, nothing is added.
OtherValues(s, ts, te, d, vals, pn, ps) ==
    [s EXCEPT !.TimeStart = IF @ = Nil THEN Nil ELSE Some(ts),
              !.TimeEnd = IF @ = Nil THEN Nil ELSE Some(te),
              !.LastDuration = IF @ = Nil THEN Nil ELSE Some(d),
              !.FParams = [i \in 1 .. Len(@) |-> FilterParam(@[i].col, vals[i])],
              !.PageNumber = IF s.ExportFormat = "" THEN pn ELSE @,
              !.PageSize = IF s.ExportFormat = "" THEN ps ELSE @]

\* What a request is apart from the values it carries.
Shape(s) ==
    [Query |-> s.Query,
     start |-> s.TimeStart # Nil,
     end |-> s.TimeEnd # Nil,
     last |-> IF s.LastDuration = Nil THEN Nil
              ELSE Some(DurationSeconds(Val(s.LastDuration))),
     cols |-> [i \in 1 .. Len(s.FParams) |-> s.FParams[i].col],
     asc |-> s.TimeAscending,
     export |-> s.ExportFormat]

\* The next Search, on the request of the call before with other values;
\* prev keeps the call before.
SearchAgain(ts, te, d, vals, pn, ps) ==
    /\ srch.res.executed
    /\ prev = SrchIdle
    /\ prev' = srch
    /\ SearchCall(OtherValues(srch.req, ts, te, d, vals, pn, ps), NoFault)
    /\ UNCHANGED pages

QueryInit ==
    /\ clock = StartupClock
    /\ relations = Bootstrapped(StartupClock, StartupClock)
    /\ created = SetToBag(RelationNames(relations))
    /\ ticks = 0
    /\ faults = 0
    /\ boot = [r \in Procs |-> BootIdle]
    /\ StoreIdle

QueryNext ==
    \/ srch = SrchIdle /\ \E s \in QueryRequests : RejectSearch(s)
    \/ srch = SrchIdle /\ \E s \in QueryRequests : Search(s, NoFault)
    \/ srch.res.executed /\ prev = SrchIdle /\ \E ts, te \in QueryInstants, d \in QueryDurations,
          vals \in [1 .. MaxFilters -> QueryValues],
          pn \in QueryPageNumbers, ps \in QueryPageSizes :
              SearchAgain(ts, te, d, vals, pn, ps)

SpecQuery == QueryInit /\ [][QueryNext]_vars

(***************************************************************************)
(* The connection pool: existence probes next to InitDBTables, InsertEvent *)
(* and Search.                                                             *)
(***************************************************************************)
\* c.QueryContext(ctx, "SELECT 1 FROM <table> WHERE false;") and the reading
\* of its error.  A successful query hands back a row cursor that owns a
\* connection; held says whether checkTableExists returns with that cursor
\* still open.
existsQuery(rels, name, failed) ==
    IF failed THEN [ret |-> "err", held |-> FALSE]
    ELSE IF name \notin RelationNames(rels)
    THEN [ret |-> "false", held |-> FALSE]
    ELSE [ret |-> "true", held |-> TRUE]

\* checkTableExists(ctx, table).  The cursor is dropped without Close; the
\* pool gets its connection back only when ctx is cancelled, which
\* cancelledOnReturn says the caller does as the call returns.
checkTableExists(cancelledOnReturn, name, failed) ==
    LET res == existsQuery(relations, name, failed)
    IN  /\ probe.n < MaxProbes
        /\ pool < MaxPool
        /\ failed => faults < MaxFaults
        /\ faults' = IF failed THEN faults + 1 ELSE faults
        /\ probe' = [name |-> name, ret |-> res.ret, n |-> probe.n + 1]
        /\ pool' = IF res.held /\ ~cancelledOnReturn THEN pool + 1 ELSE pool
        /\ UNCHANGED <<clock, ticks, relations, created, boot>>
        /\ UNCHANGED <<storeVars, insVars, srchVars, win>>

\* checkPartitionTableExists(ctx, table, givenTime): the probe runs under a
\* context of its own (2 s) that the deferred cancel ends on return.
checkPartitionTableExists(table, givenTime, failed) ==
    checkTableExists(TRUE,
                     PartitionName(table, newPartitionTimeRange(givenTime)),
                     failed)

\* Tables probed by name: one that exists and one that does not.
ProbeTables == {auditLogEventsTable, "no_such_table"}

\* Instants probed: inside the partitions of the catalog and outside them.
ProbeTimes == {StartupClock, Date(FirstYear, 1, 1, 0)}

PoolPayloads == {EmptyPayload, GarbagePayload, JSONPayload(EventA)}

PoolRequests ==
    {SearchQuery(q, Nil, Nil, Nil, <<>>, FALSE, pg[1], pg[2], pg[3]) :
        q \in {rawQ, reqInfoQ},
        pg \in {<<"", 0, MaxPageSize>>, <<"ndjson", 0, 0>>}}

\* Search failing at the query, at the first row, or at the first write.
PoolFaults ==
    {NoFault} \cup {[kind |-> k, at |-> 0] : k \in {"query", "cursor", "write"}}

PoolInit ==
    /\ clock = StartupClock
    /\ relations = Bootstrapped(StartupClock, StartupClock)
    /\ created = SetToBag(RelationNames(relations))
    /\ ticks = 0
    /\ faults = 0
    /\ boot = [r \in Procs |-> BootIdle]
    /\ StoreIdle

PoolNext ==
    \/ \E t \in ProbeTables, failed \in BOOLEAN :
           checkTableExists(FALSE, ParentName(t), failed)
    \/ \E t \in ProbeTables, at \in ProbeTimes, failed \in BOOLEAN :
           checkPartitionTableExists(t, at, failed)
    \/ InitDBTables(1)
    \/ createTableAndPartition(1)
    \/ createTablePartition(1)
    \/ BootFault(1)
    \/ \E p \in PoolPayloads : InsertEvent(p)
    \/ BeginTx
    \/ ExecInsertAuditLogEvent
    \/ ExecInsertRequestInfo
    \/ Commit
    \/ InsertFault
    \/ srch = SrchIdle /\ \E s \in PoolRequests, f \in PoolFaults : Search(s, f)
    \/ SearchDone

SpecPool == PoolInit /\ [][PoolNext]_vars

(***************************************************************************)
(* The partition scheme on its own: windows computed for instants all over *)
(* the timeline.                                                           *)
(***************************************************************************)
TimelineDays == TimelineEnd \div SecondsPerDay

\* The first and the last second of every day of the timeline, but for its
\* first and last window, whose neighbours lie outside it.
WindowInstants ==
    {d * SecondsPerDay + sec :
        d \in 7 .. TimelineDays - 11, sec \in {0, SecondsPerDay - 1}}

\* newPartitionTimeRange(t) with its previous() and next().
windowOf(t) ==
    LET w == newPartitionTimeRange(t)
    IN  /\ win = NoWindow
        /\ win' = [given |-> t, current |-> w, previous |-> previous(w),
                   next |-> next(w)]
        /\ UNCHANGED <<bootVars, storeVars, insVars, srchVars, pool, probe>>

WindowsInit ==
    /\ clock = StartupClock
    /\ BootVarsInit

WindowsNext == \E t \in WindowInstants : windowOf(t)

SpecWindows == WindowsInit /\ [][WindowsNext]_vars

(***************************************************************************)
(* Properties of InitDBTables.                                             *)
(***************************************************************************)
IsPrefix(s, t) == Len(s) <= Len(t) /\ s = SubSeq(t, 1, Len(s))


\* The engine's routing of a row of `table` with time t: some partition of the
\* table covers t.
HasPartition(table, t) ==
    \E rel \in relations : rel.parent = table /\ rel.from <= t /\ t < rel.to

\* Adjacent, distinct windows in the order previous, current, next.
AdjacentInOrder(ws) ==
    /\ ws[1].EndDate = ws[2].StartDate
    /\ ws[2].EndDate = ws[3].StartDate
    /\ ws[1].StartDate < ws[2].StartDate
    /\ ws[2].StartDate < ws[3].StartDate

\* What a run sends for the i-th table, given the time it read for that table.
ExpectedForTable(b, i) ==
    LET ws == ThreeWindows(b.nows[i])
    IN  <<ParentRelation(allTables[i])>> \o
        [k \in 1 .. 3 |-> PartitionRelation(allTables[i], ws[k])]

ExpectedSent(b) ==
    Concat([i \in 1 .. Len(b.nows) |-> ExpectedForTable(b, i)]) \o
    (IF Len(b.nows) < Len(allTables)
     THEN <<ParentRelation(allTables[Len(b.nows) + 1])>> ELSE <<>>)

\* Parent first, then the partitions previous, current, next of the window of
\* the time read for that table.
BootOrder(b) ==
    /\ IsPrefix(b.sent, ExpectedSent(b))
    /\ \A i \in 1 .. Len(b.nows) : AdjacentInOrder(ThreeWindows(b.nows[i]))

\* Instants spread over [previous.start, next.end) of the window of `now`:
\* the first and the last second of each of the three windows.
ProbeInstants(now) ==
    UNION {{w.StartDate, w.EndDate - 1} : w \in Range(ThreeWindows(now))}

\* For each table taken alone: a run that returned nil left the parent and the
\* partitions around the time read for that table.
BootPerTableCoverage ==
    \A r \in Procs : boot[r].ret = "nil" =>
        \A i \in 1 .. Len(allTables) :
            /\ ParentName(allTables[i]) \in RelationNames(relations)
            /\ \A t \in ProbeInstants(boot[r].nows[i]) :
                   HasPartition(allTables[i], t)

\* C9: each run creates a table's parent before its partitions and the
\* partitions in the order previous, current, next; and once InitDBTables has
\* returned nil both parents exist and every instant of
\* [previous.start, next.end) around the time read at startup has a partition
\* in both tables.
C9_BootstrapOrderAndCoverage ==
    \A r \in Procs :
        /\ BootOrder(boot[r])
        /\ boot[r].ret = "nil" =>
               \A i \in 1 .. Len(allTables) :
                   /\ ParentName(allTables[i]) \in RelationNames(relations)
                   /\ \A t \in ProbeInstants(boot[r].nows[1]) :
                          HasPartition(allTables[i], t)

\* All clock reads of all runs fell into one partition window.
SameWindow ==
    \A r1, r2 \in Procs :
        \A i \in 1 .. Len(boot[r1].nows), j \in 1 .. Len(boot[r2].nows) :
            newPartitionTimeRange(boot[r1].nows[i]) =
                newPartitionTimeRange(boot[r2].nows[j])

AllBootsReturnedNil == \A r \in Procs : boot[r].ret = "nil"

\* C10: whatever the interleaving of the InitDBTables runs, no run fails on a
\* relation that already exists (a run returns an error only when a statement
\* failed in the engine or timed out), no relation is materialised twice, and
\* when all runs have returned nil within one partition window each table has
\* its parent and exactly the three partitions previous, current, next.
C10_DuplicateSafeBootstrap ==
    /\ \A r \in Procs : boot[r].ret = "err" => boot[r].cause = "fault"
    /\ BagToSet(created) = RelationNames(relations)
    /\ \A n \in BagToSet(created) : CopiesIn(n, created) = 1
    /\ (AllBootsReturnedNil /\ SameWindow) =>
           \A i \in 1 .. Len(allTables) :
               /\ ParentName(allTables[i]) \in RelationNames(relations)
               /\ {rel \in relations : rel.parent = allTables[i]} =
                      {PartitionRelation(allTables[i], w) :
                          w \in Range(ThreeWindows(boot[1].nows[1]))}

\* Both runs returned nil in one window: every statement of the later run hit
\* a relation that already existed.
C10_Witness ==
    /\ AllBootsReturnedNil
    /\ SameWindow
    /\ \A r \in Procs : Len(boot[r].sent) = 4 * Len(allTables)
    /\ BagCardinality(created) = 4 * Len(allTables)

(***************************************************************************)
(* Properties of InsertEvent and Search in service.                        *)
(***************************************************************************)
EventIDs == {e.RequestID : e \in Events}

InsertReturned == ins.pc = "idle" /\ ins.ret # "none"

\* C1: at every instant, also in the middle of an InsertEvent, the committed
\* rows of the two tables pair up (each request id has as many rows in
\* audit_log_events as in request_info, one per InsertEvent that returned
\* nil); while a call is in progress nothing of it is visible; when it has
\* returned nil on a non-empty payload exactly one new row of its event is
\* visible in each table, and when it has returned an error none is.
C1_InsertEventAtomic ==
    /\ \A id \in EventIDs :
           /\ CountID(auditRows, id) = CountID(reqRows, id)
           /\ CountID(auditRows, id) = CopiesIn(id, accepted)
    /\ ins.pc # "idle" =>
           Len(auditRows) = ins.before[1] /\ Len(reqRows) = ins.before[2]
    /\ (InsertReturned /\ ins.ret = "err") =>
           Len(auditRows) = ins.before[1] /\ Len(reqRows) = ins.before[2]
    /\ (InsertReturned /\ ins.ret = "nil" /\ ~isEmptyEvent(ins.payload)) =>
           /\ auditRows = SubSeq(auditRows, 1, ins.before[1])
                              \o <<AuditLogRow(ins.payload.event)>>
           /\ reqRows = SubSeq(reqRows, 1, ins.before[2])
                            \o <<RequestInfoRow(ins.payload.event)>>

\* An InsertEvent stopped between its two inserts (the second insert failed
\* after the first had succeeded) while an earlier event is stored.
C1_Witness ==
    /\ InsertReturned
    /\ ins.ret = "err"
    /\ ins.failedAt = "insert2"
    /\ Len(auditRows) = 1
    /\ Len(reqRows) = 1

\* The request's time range covers the instant t at time `now`.
Covers(s, t, now) ==
    /\ s.TimeStart # Nil => Val(s.TimeStart) <= t
    /\ s.TimeEnd # Nil => t < Val(s.TimeEnd)
    /\ s.LastDuration # Nil => (now - t) * 1000 <= Val(s.LastDuration)

\* The request asks for all matched rows: an export, or a first page large
\* enough for the whole table.
AsksForAll(s) ==
    \/ s.ExportFormat # ""
    \/ s.PageNumber = 0 /\ s.PageSize >= Len(auditRows)

SearchReturned == srch.res.ret \notin {"none", "invalid"}

\* A Search without filters and without a fault whose time range covers the
\* event e, stored once.
FindsCase(e) ==
    /\ SearchReturned
    /\ srch.fault = NoFault
    /\ srch.req.FParams = <<>>
    /\ Covers(srch.req, e.Time, clock)
    /\ AsksForAll(srch.req)
    /\ CopiesIn(e.RequestID, accepted) = 1

FindsOne(e) ==
    /\ srch.res.ret = "nil"
    /\ CountID(SinkRows(srch.res.sink), e.RequestID) = 1

\* C2: once InsertEvent(e) has returned nil, a Search on either target whose
\* time range (absolute bounds or a relative window) covers e's timestamp
\* returns exactly one record for e.
C2_InsertThenSearchFindsOne ==
    \A e \in Events : FindsCase(e) => FindsOne(e)

\* The same for every request but the relative window on request_info.
InsertThenSearchFindsOneElsewhere ==
    \A e \in Events :
        (FindsCase(e) /\ ~(srch.req.Query = reqInfoQ /\ srch.req.LastDuration # Nil))
            => FindsOne(e)

\* C3: a Search during which the query, the cursor, the decoding of a row or
\* a write to the sink failed returns an error, and a Search that returns nil
\* has written every row of the query's result to the sink.
C3_SearchReportsEveryFailure ==
    SearchReturned =>
        /\ srch.fault # NoFault => srch.res.ret = "err"
        /\ srch.res.ret = "nil" => SinkRows(srch.res.sink) = srch.res.result

\* The same for every fault but a cursor failure during a streaming export.
SearchReportsOtherFailures ==
    (SearchReturned /\ ~(srch.fault.kind = "cursor" /\ srch.req.ExportFormat # ""))
        => /\ srch.fault # NoFault => srch.res.ret = "err"
           /\ srch.res.ret = "nil" => SinkRows(srch.res.sink) = srch.res.result

TimeColumn(table) ==
    IF table = auditLogEventsTable THEN "event_time" ELSE "time"

TimeClauseIndices(text) ==
    {i \in 1 .. Len(text.where) : text.where[i].op \in {">=", "<"}}

\* C4: in every query sent to the engine each time predicate of the WHERE
\* clause names the time column of the query's table, which is also the
\* ORDER BY column.
C4_TimePredicatesNameTimeColumn ==
    srch.res.executed =>
        LET text == srch.res.query.text
        IN  /\ text.orderBy[1] = TimeColumn(text.from)
            /\ \A i \in TimeClauseIndices(text) :
                   text.where[i].col = TimeColumn(text.from)

\* The same for the absolute bounds alone.
AbsoluteBoundsNameTimeColumn ==
    srch.res.executed =>
        LET text == srch.res.query.text
        IN  /\ text.orderBy[1] = TimeColumn(text.from)
            /\ \A i \in TimeClauseIndices(text) :
                   text.where[i].rhs.kind = "$" =>
                       text.where[i].col = TimeColumn(text.from)

BothAbsoluteAndRelative(s) ==
    s.LastDuration # Nil /\ (s.TimeStart # Nil \/ s.TimeEnd # Nil)

Rejected ==
    /\ srch.res.ret = "invalid"
    /\ ~srch.res.executed
    /\ srch.res.sink = <<>>

\* C5: a request with a relative duration and an absolute bound is rejected
\* with nothing sent to the engine and nothing written, and no query sent to
\* the engine has both an absolute and a relative time predicate.
C5_AbsoluteAndRelativeRejected ==
    /\ (srch # SrchIdle /\ BothAbsoluteAndRelative(srch.req)) => Rejected
    /\ srch.res.executed =>
           LET text == srch.res.query.text
           IN  ~ /\ \E i \in TimeClauseIndices(text) :
                        text.where[i].rhs.kind = "seconds"
                 /\ \E i \in TimeClauseIndices(text) :
                        text.where[i].rhs.kind # "seconds"

\* Such a request was submitted (its page size is fine).
C5_Witness ==
    /\ Rejected
    /\ BothAbsoluteAndRelative(srch.req)
    /\ srch.req.PageSize > 0

\* C6: a paged request (export mode none) with page size zero is rejected
\* with nothing sent to the engine, and no query sent to the engine binds
\* LIMIT to 0.
C6_ZeroPageSizeRejected ==
    /\ (srch # SrchIdle /\ srch.req.ExportFormat = "" /\ srch.req.PageSize = 0)
           => Rejected
    /\ (srch.res.executed /\ srch.res.query.text.paging # <<>>) =>
           srch.res.query.args[srch.res.query.text.paging[2].n].n # 0

\* Such a request was submitted (its time range is fine).
C6_Witness ==
    /\ Rejected
    /\ srch.req.ExportFormat = ""
    /\ srch.req.PageSize = 0
    /\ ~BothAbsoluteAndRelative(srch.req)

(***************************************************************************)
(* Properties of paging.                                                   *)
(***************************************************************************)
\* The export and every page have returned nil, and the pages asked for are
\* enough to hold every exported row.
PagesComplete ==
    /\ pages.export.done
    /\ pages.export.ret = "nil"
    /\ \A n \in 1 .. MaxPage + 1 :
           pages.page[n].done /\ pages.page[n].ret = "nil"
    /\ (MaxPage + 1) * pages.base.PageSize >= Len(pages.export.rows)

RowIDs(rows) == {RowID(rows[i]) : i \in 1 .. Len(rows)}

PagesPartition ==
    /\ Concat([n \in 1 .. MaxPage + 1 |-> pages.page[n].rows]) = pages.export.rows
    /\ \A m, n \in 1 .. MaxPage + 1 :
           m # n => RowIDs(pages.page[m].rows) \cap RowIDs(pages.page[n].rows) = {}

\* C7: over a fixed table content, the pages 0, 1, ... of a request are
\* pairwise disjoint and, in page order, make up the row sequence the same
\* request returns in an export mode, also when matched rows share a
\* timestamp.
C7_PagesPartitionExport ==
    PagesComplete => PagesPartition

TimeOf(row) ==
    IF "event_time" \in DOMAIN row THEN row.event_time ELSE row.time

DistinctTimes(rows) ==
    \A i, j \in 1 .. Len(rows) : i # j => TimeOf(rows[i]) # TimeOf(rows[j])

\* The same when no two matched rows share a timestamp.
PagesPartitionWithoutTies ==
    (PagesComplete /\ DistinctTimes(pages.export.rows)) => PagesPartition

(***************************************************************************)
(* Properties of query building.                                           *)
(***************************************************************************)
BothExecuted == prev.res.executed /\ srch.res.executed

\* The text of a query holds placeholders, and the whole seconds of the
\* relative duration, and no other value.
NoValueInText(rec) ==
    LET text == rec.res.query.text
    IN  /\ \A i \in 1 .. Len(text.where) :
               \/ text.where[i].rhs.kind = "$"
               \/ /\ text.where[i].rhs.kind = "seconds"
                  /\ rec.req.LastDuration # Nil
                  /\ text.where[i].rhs.n = DurationSeconds(Val(rec.req.LastDuration))
        /\ \A i \in 1 .. Len(text.paging) : text.paging[i].kind = "$"

\* C8: two requests that agree on target, on which of start, end and
\* last-duration are present, on the duration's whole seconds, on the ordered
\* filter column names, on sort direction and on export mode give the same
\* query text, whatever their timestamps, filter values, page number and page
\* size; the text of a query holds no such value.
C8_QueryTextIndependentOfValues ==
    /\ (BothExecuted /\ Shape(prev.req) = Shape(srch.req)) =>
           prev.res.query.text = srch.res.query.text
    /\ srch.res.executed => NoValueInText(srch)

\* Two such requests that differ in start and end timestamp, in a filter
\* value, in page number and in page size.
C8_Witness ==
    /\ BothExecuted
    /\ Shape(prev.req) = Shape(srch.req)
    /\ prev.req.TimeStart # Nil
    /\ prev.req.TimeStart # srch.req.TimeStart
    /\ prev.req.TimeEnd # srch.req.TimeEnd
    /\ prev.req.FParams # <<>>
    /\ prev.req.FParams[1].val # srch.req.FParams[1].val
    /\ prev.req.PageNumber # srch.req.PageNumber
    /\ prev.req.PageSize # srch.req.PageSize
    /\ prev.res.query.args # srch.res.query.args

\* Two requests with relative windows of 1 s and 1.5 s, read as the same
\* whole second.
SameSecondsWitness ==
    /\ BothExecuted
    /\ Shape(prev.req) = Shape(srch.req)
    /\ prev.req.LastDuration # Nil
    /\ prev.req.LastDuration # srch.req.LastDuration

\* Two requests whose relative windows differ in whole seconds, and so in
\* their text.
OtherSecondsWitness ==
    /\ BothExecuted
    /\ Shape(prev.req) # Shape(srch.req)
    /\ prev.res.query.text # srch.res.query.text

(***************************************************************************)
(* Properties of the connection pool.                                      *)
(***************************************************************************)
\* Connections owned by calls in progress: the open transaction of the
\* InsertEvent in progress.  (InitDBTables and Search take and give back
\* theirs within one step.)
InUse == IF TxOpen THEN 1 ELSE 0

\* C11: the connections checked out of the pool are those of the calls in
\* progress; once every checkTableExists, checkPartitionTableExists,
\* InitDBTables, InsertEvent and Search call has returned, with success or
\* with error, none is checked out.
C11_NoConnectionHeldAfterReturn ==
    pool = InUse

\* The same for every call but a checkTableExists that answers true under a
\* context that lives on: no other step changes the number of connections
\* held by calls that have returned.
OthersGiveConnectionsBack ==
    [][(probe' = probe \/ probe'.ret # "true" \/ pool' = pool)
          => (pool' - InUse' = pool - InUse)]_vars

\* Completed probes have exhausted the pool: InsertEvent cannot begin a
\* transaction.
PoolExhausted ==
    /\ pool = MaxPool
    /\ ~TxOpen
    /\ ins.pc = "begin"

(***************************************************************************)
(* Properties of the partition scheme.                                     *)
(***************************************************************************)
\* Every window of the timeline: the windows of its days.
Windows ==
    {newPartitionTimeRange(d * SecondsPerDay) : d \in 0 .. TimelineDays - 1}

Contains(w, t) == w.StartDate <= t /\ t < w.EndDate

\* C12: the window of an instant t contains t, its previous window ends where
\* it starts, its next window starts where it ends, and no other window
\* contains t; this across month and year boundaries and for the last window
\* of months of 28, 29, 30 and 31 days.
C12_WindowsTile ==
    win.given # -1 =>
        /\ Contains(win.current, win.given)
        /\ win.previous.EndDate = win.current.StartDate
        /\ win.next.StartDate = win.current.EndDate
        /\ win.previous.StartDate < win.previous.EndDate
        /\ win.next.StartDate < win.next.EndDate
        /\ {w \in Windows : Contains(w, win.given)} = {win.current}

\* The last second of a February of 29 days: the window is the month's last
\* and its next window lies in March.
C12_Witness ==
    /\ win.given = Date(FirstYear + 1, 2, 29, SecondsPerDay - 1)
    /\ win.current.quarter = partitionsPerMonth
    /\ win.current.EndDate = win.given + 1
    /\ win.next.month = 3

\* The first second of a year: the previous window is the last of a December
\* of 31 days.
YearBoundaryWitness ==
    /\ win.given = Date(FirstYear + 1, 1, 1, 0)
    /\ win.previous.year = FirstYear
    /\ win.previous.month = 12
    /\ win.previous.EndDate - win.previous.StartDate = 10 * SecondsPerDay

(***************************************************************************)
(* Properties of InsertEvent's returns.                                    *)
(***************************************************************************)
\* This step is a return of InsertEvent with an error.
ReturnsErr ==
    /\ ins'.pc = "idle"
    /\ ins'.ret = "err"
    /\ ins.pc # "idle" \/ calls' # calls

LastUnsavedIsPayload ==
    unsaved # <<>> /\ unsaved[Len(unsaved)] = ins.payload

\* C13: a return of InsertEvent with an error, whatever the step it stopped
\* at, adds the call's payload to the log of unsaved events, once; no other
\* step adds to that log, and a call that returned nil has logged nothing.
C13_ErrorReturnedAndLoggedOnce ==
    /\ [](InsertReturned =>
             IF ins.ret = "err"
             THEN ins.logged = 1 /\ LastUnsavedIsPayload
                  /\ ~isEmptyEvent(ins.payload)
             ELSE ins.logged = 0)
    /\ [][IF ReturnsErr THEN unsaved' = Append(unsaved, ins'.payload)
          ELSE unsaved' = unsaved]_vars

\* InsertEvent returned the error of a failed Commit, and the payload is the
\* one logged.
C13_Witness ==
    /\ InsertReturned
    /\ ins.ret = "err"
    /\ ins.failedAt = "commit"
    /\ unsaved = <<ins.payload>>

\* C14: an InsertEvent on an empty payload returns nil at once: it has not
\* parsed the payload or begun a transaction, and it leaves both tables, the
\* events accepted and the log of unsaved events as they were.
C14_EmptyPayloadIsNoOp ==
    [][(calls' # calls /\ isEmptyEvent(ins'.payload)) =>
          /\ ins'.pc = "idle"
          /\ ins'.ret = "nil"
          /\ ins'.event = NoEvent
          /\ ins'.logged = 0
          /\ ins'.txAudit = <<>> /\ ins'.txReq = <<>>
          /\ UNCHANGED <<auditRows, reqRows, accepted, unsaved, pool>>]_vars

\* An empty payload was submitted after an event had been stored.
C14_Witness ==
    /\ InsertReturned
    /\ isEmptyEvent(ins.payload)
    /\ ins.ret = "nil"
    /\ Len(auditRows) = 1
    /\ Len(reqRows) = 1

EventOfID(id) == CHOOSE e \in Events : e.RequestID = id

\* The content-length columns of a request_info row are those of its event:
\* null when the event has none, else the value.
LengthsStored(row) ==
    LET e == EventOfID(row.request_id)
    IN  /\ row.request_content_length = e.reqLen
        /\ row.response_content_length = e.respLen

\* C15: every request_info row, committed or in the open transaction, holds
\* null for a content length that cannot be derived and the value (0
\* included) for one that can; the second insert stops InsertEvent only when
\* the engine fails it, so an underivable length is neither returned nor
\* logged and the call goes on to Commit.
C15_UnderivableLengthStoredNull ==
    /\ [](\A i \in 1 .. Len(reqRows) : LengthsStored(reqRows[i]))
    /\ [](\A i \in 1 .. Len(ins.txReq) : LengthsStored(ins.txReq[i]))
    /\ [][(ins.pc = "insert2" /\ ins'.pc = "idle") =>
              \/ faults' = faults + 1
              \/ ~InsertRouted(relations, requestInfoTable, ins.event.Time)]_vars

\* An event without a request length and with response length 0 was
\* committed and nothing was logged.
C15_Witness ==
    /\ InsertReturned
    /\ ins.ret = "nil"
    /\ ins.event.reqLen = Nil
    /\ ins.event.respLen = Some(0)
    /\ reqRows # <<>>
    /\ reqRows[Len(reqRows)].request_content_length = Nil
    /\ reqRows[Len(reqRows)].response_content_length = Some(0)
    /\ unsaved = <<>>

\* An event without a response length was committed.
NoResponseLengthWitness ==
    /\ InsertReturned
    /\ ins.ret = "nil"
    /\ ins.event.respLen = Nil
    /\ reqRows # <<>>
    /\ reqRows[Len(reqRows)].response_content_length = Nil
    /\ reqRows[Len(reqRows)].request_content_length = Some(7)

(***************************************************************************)
(* Properties of the buffered output path and of placeholder numbering.    *)
(***************************************************************************)
\* Search takes the default branch of the switch on ExportFormat.
Buffers(s) == s.ExportFormat \notin {"ndjson", "csv"}

\* The query carries OFFSET page*size LIMIT size, and no more than PageSize
\* rows were read into memory and written.
PageBounded(rec) ==
    LET q == rec.res.query
    IN  /\ Len(q.text.paging) = 2
        /\ q.args[q.text.paging[1].n] = IntArg(rec.req.PageNumber * rec.req.PageSize)
        /\ q.args[q.text.paging[2].n] = IntArg(rec.req.PageSize)
        /\ Len(rec.res.result) <= rec.req.PageSize
        /\ Len(SinkRows(rec.res.sink)) <= rec.req.PageSize

\* C16: whenever Search takes the branch that reads all rows into memory
\* before writing, whatever the value of ExportFormat, the executed query
\* carries OFFSET page*size LIMIT size and at most PageSize rows are buffered.
C16_BufferedOutputBounded ==
    (srch.res.executed /\ ~QueryRejected(srch.res.query, relations)
        /\ srch.fault.kind # "query" /\ Buffers(srch.req))
        => PageBounded(srch)

\* The same for export mode none.
BufferedPageBounded ==
    (srch.res.executed /\ ~QueryRejected(srch.res.query, relations)
        /\ srch.fault.kind # "query" /\ srch.req.ExportFormat = "")
        => PageBounded(srch)

\* A request with an export mode Search does not know and page size 1 had
\* two rows buffered and written as one array.
UnboundedBufferWitness ==
    /\ srch.res.ret = "nil"
    /\ srch.req.ExportFormat = "xml"
    /\ srch.req.PageSize = 1
    /\ Len(srch.res.sink) = 1
    /\ Len(srch.res.sink[1].rows) = 2

\* The right-hand sides of a query text in order of appearance: the WHERE
\* clauses, then OFFSET and LIMIT.
RightHandSides(text) ==
    [i \in 1 .. Len(text.where) |-> text.where[i].rhs] \o text.paging

RECURSIVE PlaceholderNumbers(_)
PlaceholderNumbers(rhss) ==
    IF rhss = <<>> THEN <<>>
    ELSE (IF Head(rhss).kind = "$" THEN <<Head(rhss).n>> ELSE <<>>)
             \o PlaceholderNumbers(Tail(rhss))

\* The values of a request in the order start, end, filter values, offset,
\* limit.
IntendedArgs(s) ==
    (IF s.TimeStart # Nil THEN <<TimeArg(Val(s.TimeStart))>> ELSE <<>>)
    \o (IF s.TimeEnd # Nil THEN <<TimeArg(Val(s.TimeEnd))>> ELSE <<>>)
    \o [i \in 1 .. Len(s.FParams) |-> TextArg(s.FParams[i].val)]
    \o (IF s.ExportFormat = ""
        THEN <<IntArg(s.PageNumber * s.PageSize), IntArg(s.PageSize)>>
        ELSE <<>>)

\* The clause or paging slot that holds $k is the one its argument is meant
\* for.
SlotMatchesArg(s, q, k) ==
    LET text   == q.text
        nTime  == Len(SelectSeq(text.where, LAMBDA c : c.op # "match"))
    IN  \A i \in 1 .. Len(text.where) :
            (text.where[i].rhs.kind = "$" /\ text.where[i].rhs.n = k) =>
                CASE text.where[i].op = ">=" -> q.args[k] = TimeArg(Val(s.TimeStart))
                  [] text.where[i].op = "<" -> q.args[k] = TimeArg(Val(s.TimeEnd))
                  [] OTHER ->
                        /\ text.where[i].col = s.FParams[i - nTime].col
                        /\ q.args[k] = TextArg(s.FParams[i - nTime].val)

\* C17: in every query Search sends to the engine the placeholders are, in
\* order of appearance, $1..$n for the n arguments passed with it; the i-th
\* argument is the value meant for $i (start, end, the filter values in
\* order, offset, limit); the relative-duration predicate holds no
\* placeholder.
C17_PlaceholdersMatchArgs ==
    srch.res.executed =>
        LET q == srch.res.query
            s == srch.req
        IN  /\ PlaceholderNumbers(RightHandSides(q.text))
                   = [i \in 1 .. Len(q.args) |-> i]
            /\ q.args = IntendedArgs(s)
            /\ \A k \in 1 .. Len(q.args) : SlotMatchesArg(s, q, k)
            /\ Len(q.text.paging) = (IF s.ExportFormat = "" THEN 2 ELSE 0)
            /\ \A i \in 1 .. Len(q.text.where) :
                   q.text.where[i].rhs.kind = "seconds" <=>
                       (s.LastDuration # Nil /\ i = 1)

\* A paged request with start, end and as many filters as allowed: the
\* placeholders run up to $(MaxFilters + 4).
C17_Witness ==
    /\ srch.res.executed
    /\ srch.req.TimeStart # Nil
    /\ srch.req.TimeEnd # Nil
    /\ Len(srch.req.FParams) = MaxFilters
    /\ srch.req.ExportFormat = ""
    /\ Len(srch.res.query.args) = MaxFilters + 4
    /\ srch.res.query.text.paging = <<Dollar(MaxFilters + 3), Dollar(MaxFilters + 4)>>

\* A request with a relative duration, filters and paging: the filters start
\* at $1.
RelativeDurationWitness ==
    /\ srch.res.executed
    /\ srch.req.LastDuration # Nil
    /\ srch.req.FParams # <<>>
    /\ srch.res.query.text.where[2].rhs = Dollar(1)

====
